---- MODULE Spec2Model ----
(***************************************************************************)
(* Model of viewer/main.py: the trace store (TimelineTrace), the range     *)
(* sampler (get_sampled_time_slice), the lane assignment (add_rank_pos)    *)
(* and the refresh protocol of TimelineTraceViewer.                        *)
(*                                                                         *)
(* Kinds are strings in the CSV; they are modelled as the integers of      *)
(* KindSet, whose numeric order stands for the order of the labels.        *)
(* Positions and indices are 0-based as in the code; TLA+ sequences are    *)
(* 1-based, so position p of a frame is element p+1 of its sequence.       *)
(***************************************************************************)
EXTENDS Integers, Sequences, FiniteSets, TLC

\* ---------------------------------------------------------------- bounds
\* rows of a trace, the largest time stamp, the largest rank and the
\* largest lane count
MaxRows == 2
MaxTime == 1
MaxRank == 1
MaxConc == 2
\* successive applications of add_rank_pos with one lane count to one slice
MaxApplied == 2

Times == 0..MaxTime
KindSet == {1, 2}
\* sample budgets asked of the sampler, from a negative one to one per row
SampleBudgets == (0 - 1)..MaxRows
\* ranks play no part in sampling: the traces given to the sampler use rank 0
TraceRanks == {0}
Ranks == 0..MaxRank

\* the trace and one call of the sampler
VARIABLES rows, pc, time_min, time_max, data, t1_index, query, result

\* one TimelineTraceSlice and the lane assignment applied to it
VARIABLES lane_pc, lane_df, lane_conc, lane_applied

\* the fields of TimelineTraceViewer and of the bokeh models it owns;
\* exception and queries record what the last callback did: whether it
\* raised, and the trace queries it issued
VARIABLES refreshed, slider_values, active_main_tab, visible_kinds,
          main_time_range, rt_time_range, num_main_actual_events,
          main_tabs, rt_bar_src, sample_info, kind_checkbox_active,
          kind_all_button_active, exception, queries

trace_vars == <<rows, pc, time_min, time_max, data, t1_index, query, result>>

lane_vars == <<lane_pc, lane_df, lane_conc, lane_applied>>

viewer_vars == <<refreshed, slider_values, active_main_tab, visible_kinds,
                 main_time_range, rt_time_range, num_main_actual_events,
                 main_tabs, rt_bar_src, sample_info, kind_checkbox_active,
                 kind_all_button_active, exception, queries>>

vars == <<trace_vars, lane_vars, viewer_vars>>

\* ------------------------------------------------------- generic helpers
Min2(x, y) == IF x < y THEN x ELSE y

SetMin(S) == CHOOSE x \in S : \A y \in S : x <= y

SetMax(S) == CHOOSE x \in S : \A y \in S : x >= y

Range(s) == {s[i] : i \in DOMAIN s}

IsInjective(s) == \A i, j \in DOMAIN s : s[i] = s[j] => i = j

RECURSIVE Concat(_)
Concat(ss) == IF ss = <<>> THEN <<>> ELSE Head(ss) \o Concat(Tail(ss))

RECURSIVE SetToSortedSeq(_)
\* numpy.array(...).sort() of a collection of distinct integers
SetToSortedSeq(S) ==
    IF S = {} THEN <<>>
    ELSE LET m == SetMin(S) IN <<m>> \o SetToSortedSeq(S \ {m})

RECURSIVE SortValues(_)
\* Series.sort_values(): the values in ascending order
SortValues(s) ==
    IF s = <<>> THEN <<>>
    ELSE LET m == SetMin(Range(s))
             i == CHOOSE j \in DOMAIN s : s[j] = m
         IN  <<m>> \o SortValues([j \in 1..(Len(s) - 1) |->
                                      IF j < i THEN s[j] ELSE s[j + 1]])

\* searchsorted(x, side) on an ascending array: the insertion position
SearchSorted(s, x, side) ==
    Cardinality({j \in DOMAIN s : IF side = "left" THEN s[j] < x ELSE s[j] <= x})

\* ------------------------------------------------ TimelineTrace.read_csv
RowSet == [rank0 : TraceRanks, t0 : Times, rank1 : TraceRanks, t1 : Times, kind : KindSet]

\* reset_index: the index becomes 0..n-1
ResetIndex(df) == [i \in 1..Len(df) |-> [df[i] EXCEPT !.index = i - 1]]

\* pandas.read_csv plus the duration column; the index (named 'line') is the
\* row number
Frame(rs) ==
    [i \in 1..Len(rs) |->
        [index |-> i - 1, line |-> i - 1, rank0 |-> rs[i].rank0, t0 |-> rs[i].t0,
         rank1 |-> rs[i].rank1, t1 |-> rs[i].t1, kind |-> rs[i].kind,
         duration |-> rs[i].t1 - rs[i].t0]]

\* df.sort_values('t0'): the default sort is not stable, so rows with equal
\* t0 may come out in any order
SortByT0(df) ==
    {[i \in 1..Len(df) |-> df[p[i]]] :
        p \in {q \in [1..Len(df) -> 1..Len(df)] :
                 /\ IsInjective(q)
                 /\ \A i \in 1..(Len(df) - 1) : df[q[i]].t0 <= df[q[i + 1]].t0}}

RECURSIVE FirstSeen(_)
\* the distinct kinds of a row sequence in order of first appearance
FirstSeen(rs) ==
    IF rs = <<>> THEN <<>>
    ELSE LET init == FirstSeen(SubSeq(rs, 1, Len(rs) - 1))
             k    == rs[Len(rs)].kind
         IN  IF k \in Range(init) THEN init ELSE Append(init, k)

\* groupby(..., sort=False): the group keys in order of first appearance
KindOrderUnsorted(df) == FirstSeen(df)

\* the keys of df.groupby('kind'): groupby sorts the group keys
KindOrder(df) == SetToSortedSeq({df[i].kind : i \in DOMAIN df})

\* OrderedDict(df.groupby('kind')): one frame per kind, rows in df's order;
\* kind_df.reset_index(inplace=True) turns 'line' into a column
GroupByKind(df) ==
    LET ks == KindOrder(df)
    IN  [i \in 1..Len(ks) |->
            [kind |-> ks[i],
             df |-> ResetIndex(SelectSeq(df, LAMBDA r : r.kind = ks[i]))]]

Column(df, c) == [i \in 1..Len(df) |-> df[i][c]]

\* self.__t1_index[kind] = kind_df['t1'].sort_values()
T1Index(d) == [i \in 1..Len(d) |-> [kind |-> d[i].kind, t1 |-> SortValues(Column(d[i].df, "t1"))]]

\* --------------------------------- TimelineTrace.get_sampled_time_slice
\* index_start with side='right': an event that ends at the start of the
\* range is skipped
IndexStartRight(time_range, kinds) ==
    [i \in 1..Len(t1_index) |->
        IF t1_index[i].kind \in kinds
        THEN SearchSorted(t1_index[i].t1, time_range[1], "right") ELSE 0]

\* index_start: per kind, the number of events that end before the range
IndexStart(time_range, kinds) ==
    [i \in 1..Len(t1_index) |->
        IF t1_index[i].kind \in kinds
        THEN SearchSorted(t1_index[i].t1, time_range[1], "left") ELSE 0]

\* index_end without the "if kind in kinds" guard
IndexEndAllKinds(time_range, kinds) ==
    [i \in 1..Len(data) |->
        SearchSorted(Column(data[i].df, "t0"), time_range[2], "right")]

\* index_end: per kind, the number of events that start no later than the
\* end of the range
IndexEnd(time_range, kinds) ==
    [i \in 1..Len(data) |->
        IF data[i].kind \in kinds
        THEN SearchSorted(Column(data[i].df, "t0"), time_range[2], "right") ELSE 0]

NumList(index_start, index_end) ==
    [i \in 1..Len(index_end) |-> index_end[i] - index_start[i]]

RECURSIVE SumTo(_, _)
SumTo(s, i) == IF i = 0 THEN 0 ELSE s[i] + SumTo(s, i - 1)

CumSum(s) == [i \in 1..Len(s) |-> SumTo(s, i)]

NumTotal(num_sum_right) ==
    IF Len(num_sum_right) > 0 THEN num_sum_right[Len(num_sum_right)] ELSE 0

NumSumLeft(num_sum_right) ==
    [i \in 1..Len(num_sum_right) |-> IF i = 1 THEN 0 ELSE num_sum_right[i - 1]]

\* range(n) as a set
PyRange(n) == 0..(n - 1)

\* random.sample(range(n), k): every k-subset may be drawn; the empty set of
\* outcomes stands for the ValueError raised when not 0 <= k <= n
RandomSample(n, k) ==
    IF k < 0 \/ k > n THEN {}
    ELSE {S \in SUBSET PyRange(n) : Cardinality(S) = k}

\* the possible values of sampled_idxs (as sets; the code sorts them)
SampledIdxs(num_total, num_samples) ==
    IF num_total > num_samples THEN RandomSample(num_total, num_samples)
    ELSE {PyRange(num_total)}

\* the per-kind parts of sampled_idxs without the "-ns" shift
LocalSampledIdxsUnshifted(sampled_idxs, num_sum_left, num_sum_right) ==
    [i \in 1..Len(num_sum_left) |->
        LET l == SearchSorted(sampled_idxs, num_sum_left[i], "left")
            r == SearchSorted(sampled_idxs, num_sum_right[i], "left")
        IN  SubSeq(sampled_idxs, l + 1, r)]

\* [sampled_idxs[l:r]-ns for l, r, ns in zip(si_left, si_right, num_sum_left)]
LocalSampledIdxs(sampled_idxs, num_sum_left, num_sum_right) ==
    [i \in 1..Len(num_sum_left) |->
        LET l == SearchSorted(sampled_idxs, num_sum_left[i], "left")
            r == SearchSorted(sampled_idxs, num_sum_right[i], "left")
            part == SubSeq(sampled_idxs, l + 1, r)
        IN  [j \in 1..Len(part) |-> part[j] - num_sum_left[i]]]

\* df.iloc[idx_start+idxs]: the positions asked of one kind's frame
IlocPositions(index_start, local_sampled_idxs) ==
    [i \in 1..Len(index_start) |->
        [j \in 1..Len(local_sampled_idxs[i]) |-> index_start[i] + local_sampled_idxs[i][j]]]

\* iloc raises IndexError for a position outside [-n, n)
IlocInBounds(df, idxs) ==
    \A j \in DOMAIN idxs : idxs[j] < Len(df) /\ idxs[j] >= 0 - Len(df)

\* iloc counts a negative position from the end
Iloc(df, idxs) ==
    [j \in 1..Len(idxs) |-> IF idxs[j] >= 0 THEN df[idxs[j] + 1] ELSE df[Len(df) + idxs[j] + 1]]

\* a slice that keeps the index of the frame it is given
TimelineTraceSliceKeepIndex(df) == df

\* TimelineTraceSlice.__init__: reset_index(drop=True) renumbers the rows
TimelineTraceSlice(df) == ResetIndex(df)

\* ------------------------------------- TimelineTraceSlice.add_rank_pos
\* Positions are fractions num/den, kept as the code's expression builds
\* them; two fractions are the same number when they cross-multiply equal.
Rat(n, d) == [num |-> n, den |-> d]

RatEq(x, y) == x.num * y.den = y.num * x.den

\* rank0 + (index mod num_conc + 0.5) / num_conc
Rank0Pos(r, num_conc) ==
    Rat(2 * num_conc * r.rank0 + 2 * (r.index % num_conc) + 1, 2 * num_conc)

\* numpy.where(rank0 == rank1, rank0_pos, rank1 + 0.5)
Rank1Pos(r, num_conc) ==
    IF r.rank0 = r.rank1 THEN Rank0Pos(r, num_conc) ELSE Rat(2 * r.rank1 + 1, 2)

\* the frame with the columns rank0_pos, height and rank1_pos assigned
AddRankPos(df, num_conc) ==
    [i \in 1..Len(df) |->
        [rank0_pos |-> Rank0Pos(df[i], num_conc),
         height    |-> Rat(1, num_conc),
         rank1_pos |-> Rank1Pos(df[i], num_conc)] @@ df[i]]

\* df.sample(n): n distinct rows, in the order drawn
DfSample(df, n) ==
    {[j \in 1..n |-> df[p[j]]] :
        p \in {q \in [1..n -> 1..Len(df)] : IsInjective(q)}}

\* TimelineTraceSlice.get_sampled_slice: the possible results
GetSampledSlice(df, num_samples) ==
    IF Len(df) > num_samples
    THEN {TimelineTraceSlice(s) : s \in DfSample(df, num_samples)}
    ELSE {TimelineTraceSlice(df)}

\* the slice materialised for one value of sampled_idxs; an IndexError of
\* iloc ends the call
SliceFor(index_start, num_list, num_sum_left, num_sum_right, drawn) ==
    LET sampled_idxs == SetToSortedSeq(drawn)
        local        == LocalSampledIdxs(sampled_idxs, num_sum_left, num_sum_right)
        positions    == IlocPositions(index_start, local)
        ok           == \A i \in 1..Len(data) : IlocInBounds(data[i].df, positions[i])
    IN  [error |-> IF ok THEN "none" ELSE "IndexError",
         slice |-> IF ok
                   THEN TimelineTraceSlice(
                            Concat([i \in 1..Len(data) |-> Iloc(data[i].df, positions[i])]))
                   ELSE <<>>,
         num_total |-> NumTotal(num_sum_right),
         num_list |-> num_list,
         positions |-> IF ok THEN positions ELSE <<>>]

\* all outcomes of get_sampled_time_slice(time_range, kinds, num_samples):
\* one per draw, or the ValueError of random.sample
GetSampledTimeSliceOutcomes(time_range, kinds, num_samples) ==
    LET index_start   == IndexStart(time_range, kinds)
        index_end     == IndexEnd(time_range, kinds)
        num_list      == NumList(index_start, index_end)
        num_sum_right == CumSum(num_list)
        num_total     == NumTotal(num_sum_right)
        num_sum_left  == NumSumLeft(num_sum_right)
        draws         == SampledIdxs(num_total, num_samples)
    IN  IF draws = {}
        THEN {[error |-> "ValueError", slice |-> <<>>, num_total |-> num_total,
               num_list |-> num_list, positions |-> <<>>]}
        ELSE {SliceFor(index_start, num_list, num_sum_left, num_sum_right, d) : d \in draws}

\* TimelineTrace.get_kinds
GetKinds == [i \in 1..Len(data) |-> data[i].kind]

\* ------------------------------------------------- TimelineTraceViewer
\* the sliders' initial values (class attribute __slider_values); label_rate
\* is kept in hundredths, the step of its slider
InitNumSamples == 10000

InitSliderValues ==
    [num_main_bar_samples |-> InitNumSamples, label_rate |-> 0,
     num_rt_bar_samples |-> InitNumSamples, num_conc |-> 1]

SliderNames == {"num_main_bar_samples", "label_rate", "num_rt_bar_samples", "num_conc"}

\* the values a slider is moved to
SliderDomain(name) ==
    CASE name = "num_main_bar_samples" -> {1, InitNumSamples}
      [] name = "label_rate"           -> {0, 50}
      [] name = "num_rt_bar_samples"   -> {1, InitNumSamples}
      [] name = "num_conc"             -> {1, 2}

\* math.ceil(size * label_rate), label_rate in hundredths
NumLabelSamples(size, label_rate) == (size * label_rate + 99) \div 100

Columns == {"index", "line", "rank0", "t0", "rank1", "t1", "kind", "duration",
            "rank0_pos", "height", "rank1_pos"}

\* ColumnDataSource.from_df: one array per column, the index included
FromDf(df) == [c \in Columns |-> [i \in 1..Len(df) |-> df[i][c]]]

\* TimelineTrace.get_empty_time_slice
GetEmptyTimeSlice == TimelineTraceSlice(<<>>)

\* __get_sample_info: the count and whether the plot is sampled or accurate
GetSampleInfo(n_actual, n_limit) ==
    [n_actual |-> n_actual,
     msg |-> IF n_actual > n_limit THEN "sampled" ELSE "accurate",
     n_limit |-> IF n_actual > n_limit THEN n_limit ELSE 0]

QueryRecord(plot, time_range, num_samples) ==
    [plot |-> plot, time_range |-> time_range, kinds |-> visible_kinds,
     num_samples |-> num_samples]

\* __get_sampled_time_slice: the slices the trace may return, with their lane
\* columns; an outcome with an error is an exception of the call
ViewerSampledTimeSlice(time_range, num_samples) ==
    {[error |-> o.error,
      df |-> AddRankPos(o.slice, slider_values.num_conc),
      num_total |-> o.num_total] :
        o \in GetSampledTimeSliceOutcomes(time_range, visible_kinds, num_samples)}

\* __get_empty_data
GetEmptyData ==
    [error |-> "none", df |-> AddRankPos(GetEmptyTimeSlice, slider_values.num_conc),
     num_total |-> 0]

\* __get_main_data(tab_num) with the active tab `active`: the possible
\* (bar frame, label frame, count) results
GetMainData(tab_num, active) ==
    LET bars == IF tab_num = active
                THEN ViewerSampledTimeSlice(main_time_range,
                                            slider_values.num_main_bar_samples)
                ELSE {GetEmptyData}
    IN  UNION {IF b.error # "none"
               THEN {[error |-> b.error, bar |-> <<>>, label |-> <<>>, num_total |-> 0]}
               ELSE {[error |-> "none", bar |-> b.df, label |-> l, num_total |-> b.num_total] :
                       l \in GetSampledSlice(b.df,
                                NumLabelSamples(Len(b.df), slider_values.label_rate))} :
               b \in bars}

\* a request that clears the flag of the overview as well
RequestRefreshMainAndSub(r) == [r EXCEPT !.main = FALSE, !.sub = FALSE]

\* __request_refresh_main
RequestRefreshMain(r) == [r EXCEPT !.main = FALSE]

\* __request_refresh_all
RequestRefreshAll(r) == [RequestRefreshMain(r) EXCEPT !.sub = FALSE]

TabSources(bar, label, old) ==
    [bar_src |-> FromDf(bar), label_src |-> FromDf(label),
     migration_visible |-> old.migration_visible]

\* __update_main_data: the tabs are filled in order; the result is the new
\* main_tabs, the count of the active tab and whether a query raised (the
\* tabs before the failing one keep their new data)
UpdateMainData ==
    {[raised |-> d1.error # "none" \/ d2.error # "none",
      tabs |-> <<IF d1.error = "none"
                 THEN TabSources(d1.bar, d1.label, main_tabs[1]) ELSE main_tabs[1],
                 IF d1.error = "none" /\ d2.error = "none"
                 THEN TabSources(d2.bar, d2.label, main_tabs[2]) ELSE main_tabs[2]>>,
      num_actual |-> IF active_main_tab = 0 /\ d1.error = "none" THEN d1.num_total
                     ELSE IF active_main_tab = 1 /\ d1.error = "none" /\ d2.error = "none"
                          THEN d2.num_total
                          ELSE num_main_actual_events] :
        d1 \in GetMainData(0, active_main_tab), d2 \in GetMainData(1, active_main_tab)}

\* a failure of the host while the main plot is updated (the except clause
\* of __on_timer): it strikes in the query of the active tab
MainFault ==
    [raised |-> TRUE,
     tabs |-> <<IF active_main_tab = 1
                THEN TabSources(GetEmptyData.df, GetEmptyData.df, main_tabs[1])
                ELSE main_tabs[1],
                main_tabs[2]>>,
     num_actual |-> num_main_actual_events]

\* __update_rangetool_data: the new data of the overview source
UpdateRangetoolData ==
    {[raised |-> o.error # "none",
      src |-> IF o.error = "none" THEN FromDf(o.df) ELSE rt_bar_src] :
        o \in ViewerSampledTimeSlice(rt_time_range, slider_values.num_rt_bar_samples)}

SubFault == [raised |-> TRUE, src |-> rt_bar_src]

MainQuery == QueryRecord("main", main_time_range, slider_values.num_main_bar_samples)

SubQuery == QueryRecord("sub", rt_time_range, slider_values.num_rt_bar_samples)

\* ------------------------------------------------------------ initial states
NoQuery == [time_range |-> <<0, 0>>, kinds |-> {}, num_samples |-> 0]

NoResult == [error |-> "none", slice |-> <<>>, num_total |-> 0,
             num_list |-> <<>>, positions |-> <<>>]

NoSource == FromDf(<<>>)

NoTab == [bar_src |-> NoSource, label_src |-> NoSource, migration_visible |-> FALSE]

TraceIdle ==
    /\ rows = <<>>
    /\ pc = "idle"
    /\ time_min = 0
    /\ time_max = 0
    /\ data = <<>>
    /\ t1_index = <<>>
    /\ query = NoQuery
    /\ result = NoResult

LanesIdle ==
    /\ lane_pc = "idle"
    /\ lane_df = <<>>
    /\ lane_conc = 0
    /\ lane_applied = 0

\* no viewer has been constructed: only the class attributes exist
ViewerIdle ==
    /\ refreshed = [main |-> TRUE, sub |-> TRUE]
    /\ slider_values = InitSliderValues
    /\ active_main_tab = 0
    /\ visible_kinds = {}
    /\ main_time_range = <<0, 0>>
    /\ rt_time_range = <<0, 0>>
    /\ num_main_actual_events = 0
    /\ main_tabs = <<>>
    /\ rt_bar_src = <<>>
    /\ sample_info = <<>>
    /\ kind_checkbox_active = {}
    /\ kind_all_button_active = {0}
    /\ exception = FALSE
    /\ queries = <<>>

\* --------------------------------------------------------------- the sampler
Init ==
    /\ rows \in UNION {[1..n -> RowSet] : n \in 1..MaxRows}
    /\ pc = "start"
    /\ time_min = 0
    /\ time_max = 0
    /\ data = <<>>
    /\ t1_index = <<>>
    /\ query = NoQuery
    /\ result = NoResult
    /\ LanesIdle
    /\ ViewerIdle

ReadCsv ==
    /\ pc = "start"
    /\ \E df \in SortByT0(Frame(rows)) :
          /\ data' = GroupByKind(df)
          /\ t1_index' = T1Index(GroupByKind(df))
          /\ time_min' = SetMin({df[i].t0 : i \in DOMAIN df})
          /\ time_max' = SetMax({df[i].t1 : i \in DOMAIN df})
    /\ pc' = "loaded"
    /\ UNCHANGED <<rows, query, result, lane_vars, viewer_vars>>

GetSampledTimeSlice ==
    /\ pc = "loaded"
    /\ \E a \in Times, b \in Times, kinds \in SUBSET KindSet, num_samples \in SampleBudgets :
          /\ query' = [time_range |-> <<a, b>>, kinds |-> kinds, num_samples |-> num_samples]
          /\ result' \in GetSampledTimeSliceOutcomes(<<a, b>>, kinds, num_samples)
    /\ pc' = "sampled"
    /\ UNCHANGED <<rows, time_min, time_max, data, t1_index, lane_vars, viewer_vars>>

Next == ReadCsv \/ GetSampledTimeSlice

Spec == Init /\ [][Next]_vars

\* ------------------------------------------------------ the lane assignment
\* a frame as pandas.concat hands it to TimelineTraceSlice: each row still
\* carries the index it had in its kind's frame
LaneRowSet == [index : 0..(MaxRows - 1), rank0 : Ranks, rank1 : Ranks]

InitLanes ==
    /\ lane_pc = "frame"
    /\ lane_df \in UNION {[1..n -> LaneRowSet] : n \in 1..MaxRows}
    /\ lane_conc = 0
    /\ lane_applied = 0
    /\ TraceIdle
    /\ ViewerIdle

NewSlice ==
    /\ lane_pc = "frame"
    /\ lane_df' = TimelineTraceSlice(lane_df)
    /\ lane_pc' = "slice"
    /\ UNCHANGED <<lane_conc, lane_applied, trace_vars, viewer_vars>>

\* add_rank_pos(num_conc); lane_applied counts the successive applications
\* with the same lane count
LaneAddRankPos ==
    /\ lane_pc \in {"slice", "ranked"}
    /\ lane_applied < MaxApplied
    /\ \E num_conc \in 1..MaxConc :
          /\ lane_df' = AddRankPos(lane_df, num_conc)
          /\ lane_conc' = num_conc
          /\ lane_applied' = IF num_conc = lane_conc THEN lane_applied + 1 ELSE 1
    /\ lane_pc' = "ranked"
    /\ UNCHANGED <<trace_vars, viewer_vars>>

NextLanes == NewSlice \/ LaneAddRankPos

SpecLanes == InitLanes /\ [][NextLanes]_vars

\* ------------------------------------------------------------- the viewer
\* the trace the viewer is started on: one event, a migration from rank 0 to
\* rank 1 at time 1
ViewerRows ==
    <<[rank0 |-> 0, t0 |-> 1, rank1 |-> 1, t1 |-> 1, kind |-> 1]>>

\* the state after read_csv and TimelineTraceViewer.__init__
InitViewer ==
    /\ rows = ViewerRows
    /\ pc = "viewer"
    /\ \E df \in SortByT0(Frame(ViewerRows)) :
          /\ data = GroupByKind(df)
          /\ t1_index = T1Index(GroupByKind(df))
          /\ time_min = SetMin({df[i].t0 : i \in DOMAIN df})
          /\ time_max = SetMax({df[i].t1 : i \in DOMAIN df})
    /\ query = NoQuery
    /\ result = NoResult
    /\ LanesIdle
    /\ refreshed = [main |-> TRUE, sub |-> TRUE]
    /\ slider_values = InitSliderValues
    /\ active_main_tab = 0
    /\ visible_kinds = Range(GetKinds)
    /\ main_time_range = <<time_min, time_max>>
    /\ rt_time_range = <<time_min, time_max>>
    /\ num_main_actual_events \in {d.num_total : d \in GetMainData(0, 0)}
    /\ \E d1 \in GetMainData(0, 0), d2 \in GetMainData(1, 0) :
          /\ d1.error = "none"
          /\ d1.num_total = num_main_actual_events
          /\ main_tabs = <<TabSources(d1.bar, d1.label, NoTab),
                           TabSources(d2.bar, d2.label, NoTab)>>
    /\ \E r \in ViewerSampledTimeSlice(rt_time_range, slider_values.num_rt_bar_samples) :
          /\ r.error = "none"
          /\ rt_bar_src = FromDf(r.df)
    /\ sample_info = GetSampleInfo(num_main_actual_events, slider_values.num_main_bar_samples)
    /\ kind_checkbox_active = 0..(Len(GetKinds) - 1)
    /\ kind_all_button_active = {0}
    /\ exception = FALSE
    /\ queries = <<>>

\* bokeh runs an on_change or on_click callback when the property takes a new
\* value, so every handler below is guarded by new # old.
\* What every callback other than the timer leaves behind: it returned
\* normally and asked the trace nothing
Returned == exception' = FALSE /\ queries' = <<>>

\* __on_change_time_range
OnChangeTimeRange ==
    /\ pc = "viewer"
    /\ \E attr \in {"start", "end"}, new \in Times :
          /\ new # (IF attr = "start" THEN main_time_range[1] ELSE main_time_range[2])
          /\ main_time_range' = IF attr = "start" THEN <<new, main_time_range[2]>>
                                ELSE <<main_time_range[1], new>>
    /\ refreshed' = RequestRefreshMain(refreshed)
    /\ Returned
    /\ UNCHANGED <<trace_vars, lane_vars, slider_values, active_main_tab, visible_kinds,
                   rt_time_range, num_main_actual_events, main_tabs, rt_bar_src,
                   sample_info, kind_checkbox_active, kind_all_button_active>>

\* __on_change_main_tab
OnChangeMainTab ==
    /\ pc = "viewer"
    /\ \E new \in {0, 1} \ {active_main_tab} : active_main_tab' = new
    /\ refreshed' = RequestRefreshMain(refreshed)
    /\ Returned
    /\ UNCHANGED <<trace_vars, lane_vars, slider_values, visible_kinds, main_time_range,
                   rt_time_range, num_main_actual_events, main_tabs, rt_bar_src,
                   sample_info, kind_checkbox_active, kind_all_button_active>>

\* __on_change_slider
OnChangeSlider ==
    /\ pc = "viewer"
    /\ \E name \in SliderNames :
          \E new \in SliderDomain(name) \ {slider_values[name]} :
             slider_values' = [slider_values EXCEPT ![name] = new]
    /\ refreshed' = RequestRefreshAll(refreshed)
    /\ Returned
    /\ UNCHANGED <<trace_vars, lane_vars, active_main_tab, visible_kinds, main_time_range,
                   rt_time_range, num_main_actual_events, main_tabs, rt_bar_src,
                   sample_info, kind_checkbox_active, kind_all_button_active>>

\* __on_click_migrate_checkboxes
OnClickMigrateCheckboxes ==
    /\ pc = "viewer"
    /\ \E active_list \in SUBSET {0} :
          /\ (0 \in active_list) # main_tabs[1].migration_visible
          /\ main_tabs' = [i \in 1..2 |->
                              [main_tabs[i] EXCEPT !.migration_visible = 0 \in active_list]]
    /\ Returned
    /\ UNCHANGED <<trace_vars, lane_vars, refreshed, slider_values, active_main_tab,
                   visible_kinds, main_time_range, rt_time_range, num_main_actual_events,
                   rt_bar_src, sample_info, kind_checkbox_active, kind_all_button_active>>

\* the effect of __on_click_kind_checkboxes(active_list)
KindCheckboxes(active_list) ==
    /\ kind_checkbox_active' = active_list
    /\ visible_kinds' = {GetKinds[i + 1] : i \in active_list}
    /\ refreshed' = RequestRefreshAll(refreshed)

\* __on_click_kind_checkboxes: the user ticks or unticks kinds
OnClickKindCheckboxes ==
    /\ pc = "viewer"
    /\ \E active_list \in (SUBSET (0..(Len(GetKinds) - 1))) \ {kind_checkbox_active} :
          KindCheckboxes(active_list)
    /\ Returned
    /\ UNCHANGED <<trace_vars, lane_vars, slider_values, active_main_tab, main_time_range,
                   rt_time_range, num_main_actual_events, main_tabs, rt_bar_src,
                   sample_info, kind_all_button_active>>

\* __on_click_show_all_kinds: it assigns kind_checkbox_group.active, and the
\* change of that property runs __on_click_kind_checkboxes
OnClickShowAllKinds ==
    /\ pc = "viewer"
    /\ \E active_list \in (SUBSET {0}) \ {kind_all_button_active} :
          /\ kind_all_button_active' = active_list
          /\ LET new == IF 0 \in active_list THEN 0..(Len(GetKinds) - 1) ELSE {}
             IN  IF new # kind_checkbox_active
                 THEN KindCheckboxes(new)
                 ELSE UNCHANGED <<kind_checkbox_active, visible_kinds, refreshed>>
    /\ Returned
    /\ UNCHANGED <<trace_vars, lane_vars, slider_values, active_main_tab, main_time_range,
                   rt_time_range, num_main_actual_events, main_tabs, rt_bar_src,
                   sample_info>>

\* refresh('main', self.__update_main_data): the outcomes of the first half
\* of __on_timer
RefreshMain ==
    IF refreshed.main
    THEN {[raised |-> FALSE, done |-> TRUE, tabs |-> main_tabs,
           num_actual |-> num_main_actual_events, info |-> sample_info, log |-> <<>>]}
    ELSE {[raised |-> m.raised, done |-> ~m.raised, tabs |-> m.tabs,
           num_actual |-> m.num_actual,
           info |-> IF m.raised THEN sample_info
                    ELSE GetSampleInfo(m.num_actual, slider_values.num_main_bar_samples),
           log |-> <<MainQuery>>] :
             m \in UpdateMainData \cup {MainFault}}

\* refresh('sub', self.__update_rangetool_data), not reached when the first
\* half raised
RefreshSub(main_raised) ==
    IF main_raised \/ refreshed.sub
    THEN {[raised |-> FALSE, done |-> refreshed.sub, src |-> rt_bar_src, log |-> <<>>]}
    ELSE {[raised |-> r.raised, done |-> ~r.raised, src |-> r.src, log |-> <<SubQuery>>] :
             r \in UpdateRangetoolData \cup {SubFault}}

\* __on_timer
OnTimer ==
    /\ pc = "viewer"
    /\ \E m \in RefreshMain :
          \E r \in RefreshSub(m.raised) :
             /\ main_tabs' = m.tabs
             /\ num_main_actual_events' = m.num_actual
             /\ sample_info' = m.info
             /\ rt_bar_src' = r.src
             /\ refreshed' = [main |-> m.done, sub |-> r.done]
             /\ exception' = (m.raised \/ r.raised)
             /\ queries' = m.log \o r.log
    /\ UNCHANGED <<trace_vars, lane_vars, slider_values, active_main_tab, visible_kinds,
                   main_time_range, rt_time_range, kind_checkbox_active,
                   kind_all_button_active>>

NextViewer ==
    \/ OnChangeTimeRange
    \/ OnChangeMainTab
    \/ OnChangeSlider
    \/ OnClickMigrateCheckboxes
    \/ OnClickKindCheckboxes
    \/ OnClickShowAllKinds
    \/ OnTimer

SpecViewer == InitViewer /\ [][NextViewer]_vars

\* =================================================== properties of the sampler
Sampled == pc = "sampled"

QStart == query.time_range[1]

QEnd == query.time_range[2]

\* the events of the trace, each with its row number
AllEvents == Range(Frame(rows))

WellFormed == \A i \in DOMAIN rows : rows[i].t0 <= rows[i].t1

Intersects(e) == e.t1 >= QStart /\ e.t0 <= QEnd

\* the events a query is meant to select
Matching == {e \in AllEvents : e.kind \in query.kinds /\ Intersects(e)}

\* an event without the index a frame gave it
Event(r) == [line |-> r.line, rank0 |-> r.rank0, t0 |-> r.t0, rank1 |-> r.rank1,
             t1 |-> r.t1, kind |-> r.kind, duration |-> r.duration]

SliceEvents == {Event(result.slice[i]) : i \in DOMAIN result.slice}

MatchingEvents == {Event(e) : e \in Matching}

\* lo_k and hi_k of the kind at position i of the kind order
LoOf(i) == Cardinality({j \in DOMAIN data[i].df : data[i].df[j].t1 < QStart})

HiOf(i) == Cardinality({j \in DOMAIN data[i].df : data[i].df[j].t0 <= QEnd})

\* C1 (as claimed): every event of the returned slice intersects the queried
\* range, end_time >= a and start_time <= b; stated here for well-formed traces
\* and a <= b only, where the claim is least demanding.
C1_RangeFilterClaim ==
    (Sampled /\ result.error = "none" /\ WellFormed /\ QStart <= QEnd)
        => \A i \in DOMAIN result.slice : Intersects(result.slice[i])

\* one kind with a long event (0,1) and a short one (0,0), both visible, and
\* the range [1,1]: lo = 1 (one event ends before 1), hi = 2, and position 1
\* of the start-ordered frame holds the short event, which is returned
C1_FailingInput ==
    /\ Sampled
    /\ Len(rows) = 2
    /\ rows[1].kind = rows[2].kind
    /\ <<rows[1].t0, rows[1].t1>> = <<0, 1>>
    /\ <<rows[2].t0, rows[2].t1>> = <<0, 0>>
    /\ query = [time_range |-> <<1, 1>>, kinds |-> {rows[1].kind}, num_samples |-> 1]
    /\ result.error = "none"
    /\ Len(result.slice) = 1
    /\ result.slice[1].line = 1
    /\ ~Intersects(result.slice[1])

\* C2 (as claimed): with a <= b and max_samples >= true_total_count the slice
\* holds exactly the visible events that intersect [a,b], none missing and
\* none extra.
C2_ExactUnderBudgetClaim ==
    (Sampled /\ WellFormed /\ QStart <= QEnd /\ query.num_samples >= result.num_total)
        => /\ result.error = "none"
           /\ SliceEvents = MatchingEvents
           /\ Len(result.slice) = Cardinality(MatchingEvents)

\* the same trace and range with a budget above the count: the event that
\* intersects the range is missing and one that does not is returned
C2_FailingInput ==
    /\ Sampled
    /\ WellFormed
    /\ query.time_range = <<1, 1>>
    /\ query.num_samples = 2
    /\ result.error = "none"
    /\ result.num_total = 1
    /\ \E e \in MatchingEvents : e \notin SliceEvents
    /\ \E e \in SliceEvents : e \notin MatchingEvents

\* C3 (as claimed): for every trace, range, kind set and max_samples the call
\* returns a slice of size min(max_samples, true_total_count).
C3_BudgetClaim ==
    Sampled => /\ result.error = "none"
               /\ Len(result.slice) = Min2(query.num_samples, result.num_total)

\* a negative budget on a range that holds an event: random.sample raises
C3_FailingInput ==
    /\ Sampled
    /\ Len(rows) = 1
    /\ WellFormed
    /\ QStart <= QEnd
    /\ query.num_samples < 0
    /\ result.num_total = 1
    /\ result.error = "ValueError"

Degenerate == query.kinds = {} \/ QStart > QEnd \/ query.num_samples <= 0

\* C4 (as claimed): an empty kind set, an inverted range or max_samples <= 0
\* never raises and yields a size-0 slice with true_total_count = 0.
C4_EmptyInputClaim ==
    (Sampled /\ Degenerate)
        => /\ result.error = "none"
           /\ Len(result.slice) = 0
           /\ result.num_total = 0

\* an inverted range [1,0] over one visible event (0,1): the event is
\* returned and counted
C4_FailingInput ==
    /\ Sampled
    /\ Len(rows) = 1
    /\ <<rows[1].t0, rows[1].t1>> = <<0, 1>>
    /\ query.time_range = <<1, 0>>
    /\ query.num_samples = 1
    /\ result.error = "none"
    /\ Len(result.slice) = 1
    /\ result.num_total = 1

SliceKinds == [i \in 1..Len(result.slice) |-> result.slice[i].kind]

\* C5 (as claimed): get_kinds returns the kinds in the order in which each
\* first appears in the ingested rows.
C5_FirstSeenClaim == pc # "start" => GetKinds = FirstSeen(rows)

\* C5 (amended): get_kinds returns the distinct kinds of the trace in
\* ascending order of the kind label, and the rows of a returned slice are
\* grouped by kind in that same order.
C5_KindOrderSorted ==
    pc # "start"
        => /\ Range(GetKinds) = {rows[i].kind : i \in DOMAIN rows}
           /\ \A i, j \in DOMAIN GetKinds : i < j => GetKinds[i] < GetKinds[j]
           /\ \A i, j \in DOMAIN result.slice : i < j => SliceKinds[i] <= SliceKinds[j]

C5_Witness ==
    /\ Sampled
    /\ Len(rows) = 2
    /\ rows[1].kind > rows[2].kind
    /\ Len(result.slice) = 2
    /\ SliceKinds[1] < SliceKinds[2]

C7_KindFilter ==
    Sampled
        => /\ \A i \in DOMAIN result.slice : result.slice[i].kind \in query.kinds
           /\ \A i \in DOMAIN result.num_list :
                 data[i].kind \notin query.kinds => result.num_list[i] = 0
           /\ \A i \in DOMAIN result.positions :
                 data[i].kind \notin query.kinds => result.positions[i] = <<>>
           /\ result.num_total =
                 SumTo([i \in 1..Len(data) |->
                           IF data[i].kind \in query.kinds THEN HiOf(i) - LoOf(i) ELSE 0],
                       Len(data))

\* a hidden kind whose event intersects the range, beside a visible kind that
\* is returned
C7_Witness ==
    /\ Sampled
    /\ result.error = "none"
    /\ Len(data) = 2
    /\ data[1].kind \notin query.kinds
    /\ HiOf(1) - LoOf(1) >= 1
    /\ result.positions[2] # <<>>

\* the number of events of the kind at position i of the kind order that are
\* visible and intersect the queried range
MatchingOf(i) ==
    IF data[i].kind \in query.kinds
    THEN Cardinality({j \in DOMAIN data[i].df : Intersects(data[i].df[j])})
    ELSE 0

\* C9: for a trace whose events all have start <= end and a range with
\* a <= b, every per-kind count hi_k - lo_k is non-negative and equals the
\* number of that kind's visible events intersecting [a,b], and the returned
\* count is the number of all visible events intersecting [a,b].
C9_ExactCount ==
    (Sampled /\ QStart <= QEnd /\ WellFormed)
        => /\ \A i \in DOMAIN result.num_list :
                 /\ result.num_list[i] >= 0
                 /\ result.num_list[i] = MatchingOf(i)
           /\ result.num_total = SumTo([i \in 1..Len(data) |-> MatchingOf(i)], Len(data))

\* a query that counts one event and leaves out another of the same kind
C9_Witness ==
    /\ Sampled
    /\ WellFormed
    /\ QStart <= QEnd
    /\ result.num_total = 1
    /\ \E e \in AllEvents : e.kind \in query.kinds /\ ~Intersects(e)

\* ============================================ properties of the lane assignment
\* C8: after add_rank_pos(lane_count) the event at position i of the slice has
\* height 1/lane_count, origin lane position
\* rank0 + (i mod lane_count + 0.5)/lane_count (rank0 + 0.5 when lane_count is
\* 1) and destination lane position equal to the origin one when
\* rank1 = rank0, else rank1 + 0.5; applying it again with the same
\* lane_count changes nothing.
C8_LaneDeterminism ==
    /\ [](lane_pc = "ranked"
            => \A i \in DOMAIN lane_df :
                  LET r == lane_df[i]
                      n == lane_conc
                  IN  /\ RatEq(r.height, Rat(1, n))
                      /\ RatEq(r.rank0_pos,
                               Rat(2 * n * r.rank0 + 2 * ((i - 1) % n) + 1, 2 * n))
                      /\ n = 1 => RatEq(r.rank0_pos, Rat(2 * r.rank0 + 1, 2))
                      /\ r.rank0 = r.rank1 => RatEq(r.rank1_pos, r.rank0_pos)
                      /\ r.rank0 # r.rank1 => RatEq(r.rank1_pos, Rat(2 * r.rank1 + 1, 2)))
    /\ [][(lane_pc = "ranked" /\ lane_pc' = "ranked" /\ lane_conc' = lane_conc)
             => lane_df' = lane_df]_vars

\* a slice of two events, one of them a migration, assigned twice to two lanes
C8_Witness ==
    /\ lane_pc = "ranked"
    /\ lane_applied = 2
    /\ lane_conc = 2
    /\ Len(lane_df) = 2
    /\ \E i \in DOMAIN lane_df : lane_df[i].rank0 # lane_df[i].rank1

\* ===================================================== properties of the viewer
LogOf(plot) == SelectSeq(queries', LAMBDA q : q.plot = plot)

\* the data a source may hold after a query with the current parameters
FreshFrames(time_range, num_samples) ==
    {FromDf(o.df) : o \in {x \in ViewerSampledTimeSlice(time_range, num_samples) :
                              x.error = "none"}}

MainSources == [i \in 1..2 |-> <<main_tabs[i].bar_src, main_tabs[i].label_src>>]

\* a step of the timer: no widget value and no toggle changes
TickStep ==
    /\ main_time_range' = main_time_range
    /\ active_main_tab' = active_main_tab
    /\ slider_values' = slider_values
    /\ kind_checkbox_active' = kind_checkbox_active
    /\ kind_all_button_active' = kind_all_button_active
    /\ main_tabs'[1].migration_visible = main_tabs[1].migration_visible

TimerClauses ==
    /\ refreshed.main => refreshed'.main
    /\ refreshed.sub => refreshed'.sub
    /\ ~exception' => (refreshed'.main /\ refreshed'.sub)
    /\ exception' => (~refreshed'.main \/ ~refreshed'.sub)
    /\ LogOf("main") = IF refreshed.main THEN <<>> ELSE <<MainQuery>>
    /\ refreshed.main
          => /\ MainSources' = MainSources
             /\ num_main_actual_events' = num_main_actual_events
    /\ (~refreshed.main /\ refreshed'.main)
          => main_tabs'[active_main_tab + 1].bar_src
                \in FreshFrames(main_time_range, slider_values.num_main_bar_samples)
    /\ (~refreshed.main /\ ~refreshed'.main)
          => /\ exception'
             /\ LogOf("sub") = <<>>
             /\ rt_bar_src' = rt_bar_src
             /\ refreshed'.sub = refreshed.sub
    /\ refreshed.sub => (LogOf("sub") = <<>> /\ rt_bar_src' = rt_bar_src)
    /\ (~refreshed.sub /\ refreshed'.sub)
          => /\ LogOf("sub") = <<SubQuery>>
             /\ rt_bar_src' \in FreshFrames(rt_time_range, slider_values.num_rt_bar_samples)
    /\ (~refreshed.sub /\ ~refreshed'.sub /\ (refreshed.main \/ refreshed'.main))
          => (exception' /\ LogOf("sub") = <<SubQuery>>)

\* C10: a change of the main time range or of the active tab clears only the
\* 'main' flag and leaves the 'sub' flag and the overview range alone; a
\* slider or kind-checkbox change clears both flags; a timer tick queries
\* each plot whose flag is false once, with the current range, kinds and
\* budget, and sets its flag, and queries no plot whose flag is true; when an
\* update raises, its flag stays false, the exception reaches the host, and a
\* failure in 'main' skips the 'sub' refresh of that tick.
C10_RefreshProtocol ==
    [][/\ (main_time_range' # main_time_range \/ active_main_tab' # active_main_tab)
             => /\ ~refreshed'.main
                /\ refreshed'.sub = refreshed.sub
                /\ rt_time_range' = rt_time_range
                /\ queries' = <<>>
       /\ (slider_values' # slider_values \/ kind_checkbox_active' # kind_checkbox_active)
             => /\ ~refreshed'.main
                /\ ~refreshed'.sub
                /\ queries' = <<>>
       /\ TickStep => TimerClauses]_vars

\* a tick whose main update raised while both plots were waiting: only the
\* main query was issued
C10_Witness ==
    /\ pc = "viewer"
    /\ exception
    /\ ~refreshed.main
    /\ ~refreshed.sub
    /\ Len(queries) = 1
    /\ queries[1].plot = "main"
====
